---- MODULE Spec2Model ----
\* Model of bqschema.ToSchema (src/toSchema.go): the conversion of a Go type,
\* seen through package reflect, into a BigQuery table schema.
\*
\* Strings that the code takes apart (json tags, package paths, type names)
\* are sequences of tokens; all other strings are TLA+ strings.
EXTENDS Integers, Sequences, FiniteSets, TLC

VARIABLES src, pc, result

vars == <<src, pc, result>>

\* ------------------------------------------------------------------ bounds
\* wrappers (pointer, slice, array) around a base type in one-field samples
MaxWrap == 2
\* fields of a sample struct with several fields
MaxFields == 2
\* fields of a struct nested in a sample struct
MaxInnerFields == 2

\* ------------------------------------------------------- reflect: the types
\* A type is a record
\*   kind   reflect.Kind
\*   name   Type.Name(), "" for an unnamed type
\*   pkg    Type.PkgPath(), as tokens
\*   str    Type.String() of a type that is not a pointer, slice or array
\*   conv   Type.ConvertibleTo(reflect.TypeOf(time.Time{}))
\*   elem   <<Type.Elem()>> of a pointer, slice or array, else <<>>
\*   fields the struct fields, in declaration order
\* A struct field is [Name, PkgPath, Tag, Type], Tag being Tag.Get("json").

IntKinds ==
  {"Int", "Int8", "Int16", "Int32", "Int64",
   "Uint", "Uint8", "Uint16", "Uint32", "Uint64"}

FloatKinds == {"Float32", "Float64"}

Basic(k, s) ==
  [kind |-> k, name |-> s, pkg |-> <<>>, str |-> s, conv |-> FALSE,
   elem |-> <<>>, fields |-> <<>>]

Unnamed(k, s) ==
  [kind |-> k, name |-> "", pkg |-> <<>>, str |-> s, conv |-> FALSE,
   elem |-> <<>>, fields |-> <<>>]

Wrap(k, t) ==
  [kind |-> k, name |-> "", pkg |-> <<>>, str |-> "", conv |-> FALSE,
   elem |-> <<t>>, fields |-> <<>>]

StructT(n, p, s, c, fs) ==
  [kind |-> "Struct", name |-> n, pkg |-> p, str |-> s, conv |-> c,
   elem |-> <<>>, fields |-> fs]

AnonStruct(fs) == StructT("", <<>>, "struct {...}", FALSE, fs)

\* the i-th declared field is named F, FF, FFF, ...
DeclName(i) == [j \in 1..i |-> "F"]

Exported(i, tag, t) ==
  [Name |-> DeclName(i), PkgPath |-> <<>>, Tag |-> tag, Type |-> t]

Unexported(i, tag, t) ==
  [Name |-> DeclName(i), PkgPath |-> <<"main">>, Tag |-> tag, Type |-> t]

BoolT == Basic("Bool", "bool")
IntT == Basic("Int", "int")
Uint8T == Basic("Uint8", "uint8")
Int64T == Basic("Int64", "int64")
Float32T == Basic("Float32", "float32")
Float64T == Basic("Float64", "float64")
StringT == Basic("String", "string")
UintptrT == Basic("Uintptr", "uintptr")
Complex128T == Basic("Complex128", "complex128")
MapT == Unnamed("Map", "map[string]int")
InterfaceT == Unnamed("Interface", "interface {}")
FuncT == Unnamed("Func", "func()")
ChanT == Unnamed("Chan", "chan int")

\* time.Time, and a type defined as `type Stamp time.Time`
TimeT == StructT("Time", <<"time">>, "time.Time", TRUE, <<>>)
StampT == StructT("Stamp", <<"main">>, "main.Stamp", TRUE, <<>>)
\* appengine's datastore.Key, and a struct named Key of another package
AppengineKeyT ==
  StructT("Key", <<"google.golang.org/", "appengine", "/datastore">>,
          "datastore.Key", FALSE, <<Unexported(1, <<>>, StringT)>>)
OtherKeyT ==
  StructT("Key", <<"main">>, "main.Key", FALSE, <<Exported(1, <<>>, IntT)>>)
EmptyT == AnonStruct(<<>>)

\* ------------------------------------------------------- the json tags
\* "", "-", "n", "n,omitempty", "n,string"
Tags ==
  { <<>>, <<"-">>, <<"n">>, <<"n", ",", "omitempty">>,
    <<"n", ",", "string">> }

\* ",omitempty", "-,omitempty", "n,string,omitempty"
RareTags == { <<",", "omitempty">>, <<"-", ",", "omitempty">>,
              <<"n", ",", "string", ",", "omitempty">> }

AllTags == Tags \cup RareTags

\* ------------------------------------------------------- the samples
BaseTypes ==
  { BoolT, IntT, Int64T, Uint8T, Float32T, Float64T, StringT, UintptrT,
    Complex128T, MapT, InterfaceT, FuncT, ChanT, TimeT, StampT,
    AppengineKeyT, OtherKeyT, EmptyT }

WrapKinds == {"Ptr", "Slice", "Array"}

RECURSIVE WideTypes(_)
WideTypes(d) ==
  IF d = 0 THEN BaseTypes
  ELSE BaseTypes \cup { Wrap(k, t) : k \in WrapKinds, t \in WideTypes(d - 1) }

\* the value of a nil interface: reflect.ValueOf(nil) is the zero Value
NilSample == Unnamed("Invalid", "<nil>")

NonStructSamples ==
  { t \in WideTypes(MaxWrap) : t.kind # "Struct" } \cup { NilSample }

\* A field still without its place in the struct: exported or not, its json
\* tag and its type. FieldOf puts it at place i.
Choices(tags, types) ==
  [exp : {TRUE}, tag : tags, type : types]
  \cup [exp : {FALSE}, tag : {<<>>}, type : types]

FieldOf(i, c) ==
  IF c.exp THEN Exported(i, c.tag, c.type) ELSE Unexported(i, c.tag, c.type)

StructOf(cs) == AnonStruct([i \in 1..Len(cs) |-> FieldOf(i, cs[i])])

\* structs of one field, of any type and tag
OneFieldChoices == Choices(AllTags, WideTypes(MaxWrap))

\* structs of up to MaxFields fields over a few types
CoreTypes ==
  { BoolT, IntT, Float64T, StringT, MapT, TimeT,
    Wrap("Slice", StringT), Wrap("Slice", Wrap("Slice", IntT)) }

CoreChoices == Choices(Tags, CoreTypes)

\* structs with one field of a nested struct type, bare, behind a pointer or
\* as the element of a slice, between an optional field before and after;
\* the nested struct has up to MaxInnerFields fields
InnerTypes ==
  { IntT, MapT, Wrap("Slice", IntT), EmptyT, Wrap("Slice", EmptyT),
    AnonStruct(<<Exported(1, <<>>, FuncT)>>),
    AnonStruct(<<Exported(1, <<>>, BoolT)>>) }

InnerChoices ==
  Choices({<<>>}, InnerTypes) \ [exp : {FALSE}, tag : {<<>>}, type : InnerTypes \ {IntT}]

NestedWraps == {"", "Ptr", "Slice"}

Nested(w, s) == IF w = "" THEN s ELSE Wrap(w, s)

NestedTags == { <<>>, <<"n", ",", "omitempty">> }

Before == { <<>>, <<Unexported(1, <<>>, IntT)>>, <<Exported(1, <<>>, IntT)>> }

After(i) == { <<>>, <<Exported(i, <<>>, StringT)>> }

IsSample(t) ==
  \/ t \in NonStructSamples
  \/ \E c \in OneFieldChoices : t = StructOf(<<c>>)
  \/ \E n \in 0..MaxFields : \E cs \in [1..n -> CoreChoices] : t = StructOf(cs)
  \/ \E n \in 0..MaxInnerFields : \E cs \in [1..n -> InnerChoices] :
       \E w \in NestedWraps, tag \in NestedTags, pre \in Before :
         \E post \in After(Len(pre) + 2) :
           t = AnonStruct(pre \o <<Exported(Len(pre) + 1, tag,
                                            Nested(w, StructOf(cs)))>> \o post)

\* ------------------------------------------------------- errors, results
\* An error value is [kind, TypeName]; TypeName is the tokens of the type
\* name an ErrInconvertibleType carries.
NoError == [kind |-> "nil", TypeName |-> <<>>]
ErrArrayOfArray == [kind |-> "ErrArrayOfArray", TypeName |-> <<>>]
ErrNotStruct == [kind |-> "ErrNotStruct", TypeName |-> <<>>]
ErrInconvertibleType(typeName) ==
  [kind |-> "ErrInconvertibleType", TypeName |-> typeName]

\* What a call does: it returns (Fields, err), or it panics.
Return(fields, err) == [status |-> "return", Fields |-> fields, err |-> err]
Panic == [status |-> "panic", Fields |-> <<>>, err |-> NoError]

\* a bigquery.TableFieldSchema
TableFieldSchema(name, type, mode) ==
  [Name |-> name, Type |-> type, Mode |-> mode, Fields |-> <<>>]

\* ------------------------------------------------------- helpers
\* Type.String()
RECURSIVE TypeString(_)
TypeString(t) ==
  CASE t.kind = "Ptr" -> <<"*">> \o TypeString(t.elem[1])
    [] t.kind = "Slice" -> <<"[]">> \o TypeString(t.elem[1])
    [] t.kind = "Array" -> <<"[4]">> \o TypeString(t.elem[1])
    [] OTHER -> <<t.str>>

\* strings.Split(s, ","), on tokens
RECURSIVE SplitFrom(_, _, _)
SplitFrom(s, i, cur) ==
  IF i > Len(s) THEN <<cur>>
  ELSE IF s[i] = "," THEN <<cur>> \o SplitFrom(s, i + 1, <<>>)
  ELSE SplitFrom(s, i + 1, Append(cur, s[i]))

Split(s) == SplitFrom(s, 1, <<>>)

\* strings.Contains(s, sub), on tokens
Contains(s, sub) ==
  \E i \in 1..(Len(s) - Len(sub) + 1) : SubSeq(s, i, i + Len(sub) - 1) = sub

simpleType(kind) ==
  CASE kind = "Bool" -> <<"boolean", TRUE>>
    [] kind \in IntKinds -> <<"integer", TRUE>>
    [] kind \in FloatKinds -> <<"float", TRUE>>
    [] kind = "String" -> <<"string", TRUE>>
    [] OTHER -> <<"", FALSE>>

\* pointerGuard, on the type of the value it is given: a pointer gives way
\* to the zero value of what it points to, one level only
pointerGuard(t) == IF t.kind = "Ptr" THEN t.elem[1] ELSE t

\* lines 37-39: an unexported field is passed over
unexported(sf) == sf.PkgPath # <<>>

\* a bug: the first component of the tag decides, so that "-,omitempty"
\* suppresses the field too
suppressedByFirstComponent(jsonTag) == Split(jsonTag)[1] = <<"-">>

\* lines 46-49: the tag "-" passes the field over
suppressed(jsonTag) == jsonTag = <<"-">>

\* lines 43-56: the name and the mode the json tag gives
tagName(sf) == IF sf.Tag = <<>> THEN sf.Name ELSE Split(sf.Tag)[1]

\* a bug: the last component of the tag decides, not the second
tagModeLastComponent(jsonTag) ==
  IF jsonTag = <<>> THEN "required"
  ELSE LET jt == Split(jsonTag)
       IN IF Len(jt) > 1 /\ jt[Len(jt)] = <<"omitempty">> THEN "nullable"
          ELSE "required"

tagMode(jsonTag) ==
  IF jsonTag = <<>> THEN "required"
  ELSE LET jt == Split(jsonTag)
       IN IF Len(jt) > 1 /\ jt[2] = <<"omitempty">> THEN "nullable"
          ELSE "required"

\* a bug: the tag's mode comes back for every type that is no record
structModeRestoreLeaves(t, mode) == IF t # "record" THEN mode ELSE "nullable"

\* a bug: the tag's mode is never overridden
structModeKeep(t, mode) == mode

\* lines 74, 80-82: a struct field is nullable, unless it converts to a string
structMode(t, mode) == IF t = "string" THEN mode ELSE "nullable"

\* lines 134-137: the struct types that are no records
isKey(t) == t.name = "Key" /\ Contains(t.pkg, <<"appengine">>)

isTime(t) == t.conv

\* a bug: the error names the type the pointer was taken off
inconvertibleUnwrapped(sf) ==
  ErrInconvertibleType(TypeString(pointerGuard(sf.Type)))

\* line 102
inconvertible(sf) == ErrInconvertibleType(TypeString(sf.Type))

\* a bug: a pointer to a struct passes for a struct
isStructBehindPointer(t) == pointerGuard(t).kind = "Struct"

\* line 31
isStruct(t) == t.kind = "Struct"

\* line 32
notStruct == Return(<<>>, ErrNotStruct)

\* a bug: the element is reported as an inconvertible type
arrayElemErrorInconvertible(elem) == ErrInconvertibleType(TypeString(elem))

\* lines 91-93: the error for an element that is neither simple nor a struct
arrayElemError(elem) == ErrArrayOfArray

\* ------------------------------------------------------- the conversion
conversion(type, fields, err) ==
  [status |-> "return", Type |-> type, Fields |-> fields, err |-> err]

\* a bug: the children of the record are dropped
recordOfNoChildren(r) ==
  [status |-> r.status, Type |-> "record", Fields |-> <<>>, err |-> r.err]

\* line 140: a struct that is no special type is a record of the fields of
\* its own schema, r being what ToSchema did on it
recordOf(r) ==
  [status |-> r.status, Type |-> "record", Fields |-> r.Fields, err |-> r.err]

RECURSIVE ToSchema(_), fieldLoop(_, _, _), structConversion(_)

\* structConversion: the schema type, the children and the error of a struct
structConversion(t) ==
  IF isKey(t) THEN conversion("string", <<>>, NoError)
  ELSE IF isTime(t) THEN conversion("timestamp", <<>>, NoError)
  ELSE recordOf(ToSchema(t))

\* The loop of ToSchema from its i-th field on (i counts from 1 here, from 0
\* in the code, so that Fields[i] here is schema.Fields[i] there), `fields`
\* being schema.Fields. The entry tfs is the last of Fields once appended.
fieldLoop(t, i, fields) ==
  IF i > Len(t.fields) THEN Return(fields, NoError)
  ELSE
    LET sf == t.fields[i]
        v == pointerGuard(sf.Type)
        mode == tagMode(sf.Tag)
        kind == v.kind
        simple == simpleType(kind)
        appended == Append(fields, TableFieldSchema(tagName(sf), simple[1], mode))
        n == Len(appended)
    IN
    IF unexported(sf) \/ suppressed(sf.Tag) THEN fieldLoop(t, i + 1, fields)
    ELSE IF simple[2] THEN fieldLoop(t, i + 1, appended)
    ELSE
      CASE kind = "Struct" ->
             LET nullable == [appended EXCEPT ![n].Mode = "nullable"]
                 c == structConversion(v)
             IN IF c.status = "panic" THEN Panic
                ELSE IF c.err # NoError THEN Return(nullable, c.err)
                ELSE fieldLoop(t, i + 1,
                       [nullable EXCEPT ![n].Type = c.Type,
                                        ![n].Mode = structMode(c.Type, mode),
                                        ![n].Fields = c.Fields])
        [] kind \in {"Array", "Slice"} ->
             LET repeated == [appended EXCEPT ![n].Mode = "repeated"]
                 elem == pointerGuard(v.elem[1])
                 subKind == elem.kind
                 sub == simpleType(subKind)
                 c == structConversion(elem)
             IN IF sub[2]
                THEN IF i > Len(repeated) THEN Panic \* index out of range
                     ELSE fieldLoop(t, i + 1,
                            [repeated EXCEPT ![i].Type = sub[1]])
                ELSE IF subKind # "Struct"
                THEN Return(repeated, arrayElemError(elem))
                ELSE IF c.status = "panic" THEN Panic
                ELSE IF c.err # NoError THEN Return(repeated, c.err)
                ELSE IF i > Len(repeated) THEN Panic \* index out of range
                ELSE fieldLoop(t, i + 1,
                       [repeated EXCEPT ![i].Type = c.Type,
                                        ![i].Fields = c.Fields])
        [] OTHER -> Return(appended, inconvertible(sf))

ToSchema(t) ==
  IF t.kind = "Invalid" THEN Panic \* Type() of the zero Value
  ELSE IF ~isStruct(t) THEN notStruct
  ELSE fieldLoop(t, 1, <<>>)

MustToSchema(t) ==
  LET r == ToSchema(t)
  IN IF r.status = "panic" \/ r.err # NoError THEN Panic
     ELSE Return(r.Fields, NoError)

\* ------------------------------------------------------- the state machine
\* src: the type of the sample a caller passes; pc: "call" before the call,
\* then "ToSchema" or "MustToSchema", the function that was called; result:
\* what the call did.
Init ==
  /\ IsSample(src)
  /\ pc = "call"
  /\ result = Return(<<>>, NoError)

CallToSchema ==
  /\ pc = "call"
  /\ result' = ToSchema(src)
  /\ pc' = "ToSchema"
  /\ UNCHANGED src

CallMustToSchema ==
  /\ pc = "call"
  /\ result' = MustToSchema(src)
  /\ pc' = "MustToSchema"
  /\ UNCHANGED src

Next == CallToSchema \/ CallMustToSchema

Spec == Init /\ [][Next]_vars

\* ------------------------------------------------------- the claims' words
Called == pc = "ToSchema"
Returned == Called /\ result.status = "return"
Succeeded == Returned /\ result.err = NoError

\* exported, and not tagged "-"
Visible(sf) == sf.PkgPath = <<>> /\ sf.Tag # <<"-">>

VisibleFields(t) == SelectSeq(t.fields, Visible)

\* the place in the schema of the entry of the i-th field, a visible one
EntryIndex(t, i) == Len(SelectSeq(SubSeq(t.fields, 1, i), Visible))

\* a type with one level of pointer taken off
Unwrapped(t) == IF t.kind = "Ptr" THEN t.elem[1] ELSE t

IsSequence(t) == t.kind \in {"Array", "Slice"}

PrimitiveKinds == {"Bool", "String"} \cup IntKinds \cup FloatKinds

TypeTag(kind) ==
  CASE kind = "Bool" -> "boolean"
    [] kind = "String" -> "string"
    [] kind \in {"Float32", "Float64"} -> "float"
    [] OTHER -> "integer"

\* the first component of the tag if there is a tag, else the declared name
ExpectedName(sf) == IF sf.Tag = <<>> THEN sf.Name ELSE Split(sf.Tag)[1]

\* the second component of the tag is "omitempty"
OmitEmpty(sf) ==
  Len(Split(sf.Tag)) > 1 /\ Split(sf.Tag)[2] = <<"omitempty">>

AnnotatedMode(sf) == IF OmitEmpty(sf) THEN "nullable" ELSE "required"

\* the call returned, and the i-th field of the sample was converted with
\* no error: an error is returned with the failing field's entry the last
FieldConverted(i) ==
  /\ Returned
  /\ src.kind = "Struct"
  /\ i \in 1..Len(src.fields)
  /\ Visible(src.fields[i])
  /\ \/ EntryIndex(src, i) < Len(result.Fields)
     \/ EntryIndex(src, i) = Len(result.Fields) /\ result.err = NoError

EntryOfField(i) == result.Fields[EntryIndex(src, i)]

\* ------------------------------------------------------- C1
Matches(e, sf) ==
  /\ e.Name = ExpectedName(sf)
  /\ e.Mode = "repeated" <=> IsSequence(Unwrapped(sf.Type))

\* C1: when ToSchema returns a nil error for a struct, the entries of the
\* schema are, one for one and in declaration order, the fields that are
\* exported and not tagged "-"; the other fields give no entry.
C1_OneEntryPerVisibleField ==
  (Succeeded /\ src.kind = "Struct") =>
    LET visible == VisibleFields(src)
    IN /\ Len(result.Fields) = Len(visible)
       /\ \A k \in 1..Len(visible) : Matches(result.Fields[k], visible[k])

\* a field tagged "-" of a type that does not convert, before a visible one
C1_Witness ==
  /\ Succeeded
  /\ Len(src.fields) = 2
  /\ src.fields[1].Tag = <<"-">> /\ src.fields[1].Type = MapT
  /\ Visible(src.fields[2])
  /\ Len(result.Fields) = 1

\* ------------------------------------------------------- C2
AllExportedPrimitive(t) ==
  /\ t.kind = "Struct"
  /\ \A i \in 1..Len(t.fields) :
       t.fields[i].PkgPath = <<>> /\ t.fields[i].Type.kind \in PrimitiveKinds

PrimitiveEntries ==
  /\ Succeeded
  /\ Len(result.Fields) = Len(src.fields)
  /\ \A i \in 1..Len(src.fields) :
       /\ result.Fields[i].Type = TypeTag(src.fields[i].Type.kind)
       /\ result.Fields[i].Fields = <<>>
       /\ result.Fields[i].Mode = AnnotatedMode(src.fields[i])

\* C2 as stated: a struct of exported primitive fields gives one entry per
\* field, in order, of the primitive's type, with no children, required unless
\* the tag's second component is omitempty, and then nullable.
C2_Original ==
  (Called /\ AllExportedPrimitive(src)) => PrimitiveEntries

\* C2, amended: the same, for a struct none of whose fields is tagged "-".
C2_PrimitiveFields ==
  (Called /\ AllExportedPrimitive(src)
     /\ \A i \in 1..Len(src.fields) : src.fields[i].Tag # <<"-">>)
    => PrimitiveEntries

C2_Witness ==
  /\ Succeeded
  /\ AllExportedPrimitive(src)
  /\ Len(src.fields) = 2
  /\ OmitEmpty(src.fields[1]) /\ ~OmitEmpty(src.fields[2])
  /\ result.Fields[1].Mode = "nullable" /\ result.Fields[2].Mode = "required"

\* ------------------------------------------------------- C7
\* C7: for a sample whose type is not a struct, ToSchema returns an empty
\* field list and ErrNotStruct.
C7_NotStruct ==
  (Called /\ src.kind \notin {"Struct", "Invalid"}) =>
    (result.status = "return" /\ result.Fields = <<>>
       /\ result.err = ErrNotStruct)

C7_Witness ==
  /\ Returned
  /\ src.kind = "Ptr" /\ src.elem[1].kind = "Struct"
  /\ result.err = ErrNotStruct

\* ------------------------------------------------------- the spec's errors
IsKeyType(t) == t.name = "Key" /\ Contains(t.pkg, <<"appengine">>)

\* a struct that is a record: not the Key type, not convertible to time.Time
IsRecordType(t) == t.kind = "Struct" /\ ~IsKeyType(t) /\ ~t.conv

IsTimeType(t) == t.kind = "Struct" /\ ~IsKeyType(t) /\ t.conv

RECURSIVE FieldError(_), FirstError(_, _)

\* the error section 7 of the spec gives a field, NoError if it has none
FieldError(sf) ==
  LET u == Unwrapped(sf.Type)
      e == Unwrapped(u.elem[1])
  IN CASE u.kind \in PrimitiveKinds -> NoError
       [] u.kind = "Struct" ->
            IF IsRecordType(u) THEN FirstError(u.fields, 1) ELSE NoError
       [] IsSequence(u) ->
            CASE e.kind \in PrimitiveKinds -> NoError
              [] e.kind = "Struct" ->
                   IF IsRecordType(e) THEN FirstError(e.fields, 1) ELSE NoError
              [] OTHER -> ErrArrayOfArray
       [] OTHER -> ErrInconvertibleType(TypeString(sf.Type))

\* the error of the first failing field from the i-th on, depth first
FirstError(fields, i) ==
  IF i > Len(fields) THEN NoError
  ELSE IF Visible(fields[i]) /\ FieldError(fields[i]) # NoError
       THEN FieldError(fields[i])
       ELSE FirstError(fields, i + 1)

Fails(sf) == Visible(sf) /\ FieldError(sf) # NoError

\* the place of the first failing field, 0 if no field fails
FirstFailing(fields) ==
  IF \E i \in 1..Len(fields) : Fails(fields[i])
  THEN CHOOSE i \in 1..Len(fields) :
         Fails(fields[i]) /\ \A j \in 1..(i - 1) : ~Fails(fields[j])
  ELSE 0

\* ------------------------------------------------------- C3
PrimitiveSequence(sf) ==
  /\ Visible(sf)
  /\ IsSequence(sf.Type)
  /\ sf.Type.elem[1].kind \in PrimitiveKinds

\* C3 as stated: a visible field declared as an array or slice of a primitive,
\* wherever it stands in the struct and whatever precedes it (nothing before
\* it failing), gives one entry, repeated, of the element's type, with no
\* children.
C3_Original ==
  (Called /\ src.kind = "Struct") =>
    \A i \in 1..Len(src.fields) :
      (PrimitiveSequence(src.fields[i])
         /\ FirstError(SubSeq(src.fields, 1, i - 1), 1) = NoError)
        => /\ result.status = "return"
           /\ EntryOfField(i).Mode = "repeated"
           /\ EntryOfField(i).Type = TypeTag(src.fields[i].Type.elem[1].kind)
           /\ EntryOfField(i).Fields = <<>>

\* ------------------------------------------------------- C10
ErrorKinds ==
  {"nil", "ErrArrayOfArray", "ErrNotStruct", "ErrInconvertibleType"}

\* C10 as stated: for a struct, ToSchema returns a schema and an error that is
\* nil, ErrArrayOfArray, ErrNotStruct or an ErrInconvertibleType; it does not
\* end in a runtime fault.
C10_Original ==
  (Called /\ src.kind = "Struct") =>
    (result.status = "return" /\ result.err.kind \in ErrorKinds)

\* ------------------------------------------------------- C4
TimeField(sf) == Visible(sf) /\ IsTimeType(Unwrapped(sf.Type))

\* C4 as stated: a visible field of the date/time type gives an entry of type
\* timestamp with no children and the mode of its tag: required with no
\* omitempty, nullable with it.
C4_Original ==
  \A i \in 1..Len(src.fields) :
    (FieldConverted(i) /\ TimeField(src.fields[i])) =>
      /\ EntryOfField(i).Type = "timestamp"
      /\ EntryOfField(i).Fields = <<>>
      /\ EntryOfField(i).Mode = AnnotatedMode(src.fields[i])

\* C4, amended: a visible field of the date/time type gives an entry of type
\* timestamp with no children and mode nullable, with omitempty or without.
C4_TimestampNullable ==
  \A i \in 1..Len(src.fields) :
    (FieldConverted(i) /\ TimeField(src.fields[i])) =>
      /\ EntryOfField(i).Type = "timestamp"
      /\ EntryOfField(i).Fields = <<>>
      /\ EntryOfField(i).Mode = "nullable"

\* a time.Time field with no omitempty, after another field
C4_Witness ==
  /\ FieldConverted(2)
  /\ TimeField(src.fields[2])
  /\ ~OmitEmpty(src.fields[2])
  /\ EntryOfField(2).Type = "timestamp"

\* ------------------------------------------------------- C5
RecordField(sf) == Visible(sf) /\ IsRecordType(Unwrapped(sf.Type))

\* C5: a visible field whose type, one pointer taken off, is a struct that is
\* neither Key nor convertible to time.Time, and whose conversion succeeds,
\* gives an entry of type record, nullable with omitempty or without, whose
\* children are the fields ToSchema returns for the nested struct on its own.
C5_NestedRecord ==
  \A i \in 1..Len(src.fields) :
    (FieldConverted(i) /\ RecordField(src.fields[i])) =>
      LET nested == Unwrapped(src.fields[i].Type)
          own == ToSchema(nested)
      IN /\ EntryOfField(i).Type = "record"
         /\ EntryOfField(i).Mode = "nullable"
         /\ own.status = "return" /\ own.err = NoError
         /\ EntryOfField(i).Fields = own.Fields
         /\ Len(EntryOfField(i).Fields) = Len(VisibleFields(nested))

\* a pointer to a struct with two visible fields, with no omitempty
C5_Witness ==
  \E i \in 1..Len(src.fields) :
    /\ FieldConverted(i)
    /\ RecordField(src.fields[i])
    /\ src.fields[i].Type.kind = "Ptr"
    /\ ~OmitEmpty(src.fields[i])
    /\ Len(EntryOfField(i).Fields) = 2

\* ------------------------------------------------------- C6
\* the sample cut after its n-th field
Prefix(t, n) == [t EXCEPT !.fields = SubSeq(t.fields, 1, n)]

ConvertsUpTo(t, n) ==
  LET r == ToSchema(Prefix(t, n))
  IN r.status = "return" /\ r.err = NoError

\* the i-th field is the first at which the conversion of t stops
FirstToFail(t, i) == ConvertsUpTo(t, i - 1) /\ ~ConvertsUpTo(t, i)

SequenceOfSequences(sf) ==
  /\ Visible(sf)
  /\ IsSequence(sf.Type)
  /\ IsSequence(sf.Type.elem[1])

\* C6: when the first field of a struct to fail is a visible field declared
\* as an array or slice of arrays or slices, of whatever element, ToSchema
\* returns ErrArrayOfArray.
C6_ArrayOfArray ==
  (Called /\ src.kind = "Struct") =>
    \A i \in 1..Len(src.fields) :
      (FirstToFail(src, i) /\ SequenceOfSequences(src.fields[i])) =>
        (result.status = "return" /\ result.err = ErrArrayOfArray)

\* a slice of slices after an unexported field
C6_Witness ==
  /\ Returned
  /\ Len(src.fields) = 2
  /\ src.fields[1].PkgPath # <<>>
  /\ FirstToFail(src, 2)
  /\ SequenceOfSequences(src.fields[2])
  /\ result.err = ErrArrayOfArray

\* ------------------------------------------------------- C8
RECURSIVE ChildrenIffRecord(_), ChildrenOnlyInRecords(_), RecordChildren(_, _)

ChildrenIffRecord(entries) ==
  \A k \in 1..Len(entries) :
    /\ entries[k].Fields # <<>> <=> entries[k].Type = "record"
    /\ ChildrenIffRecord(entries[k].Fields)

\* C8 as stated: in a schema returned with a nil error, an entry at any depth
\* has children if and only if its type is record.
C8_Original == Succeeded => ChildrenIffRecord(result.Fields)

ChildrenOnlyInRecords(entries) ==
  \A k \in 1..Len(entries) :
    /\ entries[k].Fields # <<>> => entries[k].Type = "record"
    /\ ChildrenOnlyInRecords(entries[k].Fields)

\* the struct a record entry describes: the field's type, or its element's
RecordOf(sf) ==
  LET u == Unwrapped(sf.Type)
  IN IF IsSequence(u) THEN Unwrapped(u.elem[1]) ELSE u

\* entries being the schema of the struct fields `fields`: a record entry has
\* no children exactly when its struct has no visible field
RecordChildren(entries, fields) ==
  LET visible == SelectSeq(fields, Visible)
  IN /\ Len(entries) = Len(visible)
     /\ \A k \in 1..Len(entries) :
          entries[k].Type = "record" =>
            /\ entries[k].Fields = <<>>
                 <=> SelectSeq(RecordOf(visible[k]).fields, Visible) = <<>>
            /\ RecordChildren(entries[k].Fields, RecordOf(visible[k]).fields)

\* C8, amended: in a schema returned with a nil error, an entry at any depth
\* has children only if its type is record, and a record entry has no
\* children exactly when its struct has no exported field not tagged "-".
C8_ChildrenOnlyInRecords ==
  (Succeeded /\ src.kind = "Struct") =>
    /\ ChildrenOnlyInRecords(result.Fields)
    /\ RecordChildren(result.Fields, src.fields)

\* below the top: a repeated record of a struct with no fields, beside a
\* record that has children
C8_Witness ==
  /\ Succeeded
  /\ \E k \in 1..Len(result.Fields) :
       /\ Len(result.Fields[k].Fields) = 2
       /\ result.Fields[k].Fields[1].Type = "record"
       /\ result.Fields[k].Fields[1].Mode = "repeated"
       /\ result.Fields[k].Fields[1].Fields = <<>>
       /\ result.Fields[k].Fields[2].Type = "record"
       /\ result.Fields[k].Fields[2].Fields # <<>>

\* ------------------------------------------------------- C9
\* C9: when ToSchema returns for a struct, the error it returns is the error
\* of the first failing field, depth first and in declaration order, as it
\* is, and nil if no field fails; with an error, the schema ends with the
\* entry of the top-level field the failure lies in, which has no children.
C9_FirstErrorAsIs ==
  (Returned /\ src.kind = "Struct") =>
    /\ result.err = FirstError(src.fields, 1)
    /\ result.err # NoError =>
         /\ Len(result.Fields) = EntryIndex(src, FirstFailing(src.fields))
         /\ result.Fields[Len(result.Fields)].Fields = <<>>

\* a failure in the second field of the element struct of a slice, which a
\* field follows in the element struct and in the sample
C9_Witness ==
  /\ Returned
  /\ result.err.kind = "ErrInconvertibleType"
  /\ \E i \in 1..Len(src.fields) :
       /\ i < Len(src.fields)
       /\ Visible(src.fields[i + 1])
       /\ src.fields[i].Type.kind = "Slice"
       /\ FirstFailing(src.fields) = i
       /\ LET inner == src.fields[i].Type.elem[1]
          IN /\ inner.kind = "Struct"
             /\ Len(inner.fields) = 2
             /\ FirstFailing(inner.fields) = 1
             /\ Visible(inner.fields[2])
       /\ Len(result.Fields) = EntryIndex(src, i)

====
